---- MODULE Spec2Model ----
(***************************************************************************)
(* Model of the AI Docs Chatbot backend (src/main.py): the /api/ingest and *)
(* /api/ask handlers over the document store, and the retrieval routine    *)
(* (tokenize, scoring, ranking, extract_snippets) that /api/ask runs.       *)
(* Strings are TLA+ strings; a character is a string of length one. The    *)
(* texts of the model are ASCII: the whitespace and the letters outside     *)
(* ASCII that str.split, str.strip, \s and str.lower also know are left out.*)
(*                                                                         *)
(* Both handlers are plain `def` endpoints, which the framework runs on    *)
(* worker threads: requests are in progress side by side. /api/ask touches *)
(* the store once (get_documents); /api/ingest first waits for the network *)
(* and touches the store later (create_document), so other requests run    *)
(* between the two.                                                        *)
(***************************************************************************)
EXTENDS Integers, Sequences, FiniteSets, TLC

VARIABLES store, nextId, inflight, req, resp

vars == <<store, nextId, inflight, req, resp>>

(***************************************************************************)
(* Characters and the Python string primitives the handlers use.           *)
(***************************************************************************)

\* s[i] as a one-character string (1-based).
Ch(s, i) == SubSeq(s, i, i)

Idx(n) == [i \in 1..n |-> i]

LowerLetters == <<"a","b","c","d","e","f","g","h","i","j","k","l","m",
                  "n","o","p","q","r","s","t","u","v","w","x","y","z">>

UpperLetters == <<"A","B","C","D","E","F","G","H","I","J","K","L","M",
                  "N","O","P","Q","R","S","T","U","V","W","X","Y","Z">>

Digits == {"0","1","2","3","4","5","6","7","8","9"}

AlnumChars ==
    Digits \cup {LowerLetters[k] : k \in 1..26} \cup {UpperLetters[k] : k \in 1..26}

\* The character class [a-zA-Z0-9] of tokenize's pattern.
IsAlnum(c) == c \in AlnumChars

\* The ASCII characters for which str.isspace() holds: space, \t, \n, \r,
\* \f, the vertical tab \x0b and the separators \x1c..\x1f.
WhitespaceChars == {" ", "\t", "\n", "\r", "\f", "", "", "", "", ""}

\* The characters Python's \s (on str patterns) and str.split()/str.strip()
\* treat as whitespace.
IsSpace(c) == c \in WhitespaceChars

\* The lookbehind class [.!?] of extract_snippets' split pattern.
IsSentenceEnd(c) == c \in {".", "!", "?"}

LowerOf == [c \in {UpperLetters[k] : k \in 1..26} |->
              LowerLetters[CHOOSE k \in 1..26 : UpperLetters[k] = c]]

\* str.lower() on one character.
LowerChar(c) == IF c \in DOMAIN LowerOf THEN LowerOf[c] ELSE c

\* str.lower(): every character lowered, the others kept.
RECURSIVE lower(_)
lower(s) ==
    IF Len(s) = 0 THEN ""
    ELSE IF Len(s) = 1 THEN LowerChar(s)
    ELSE LET h == Len(s) \div 2
         IN lower(SubSeq(s, 1, h)) \o lower(SubSeq(s, h + 1, Len(s)))

\* str.strip(): the string without its leading and trailing whitespace.
strip(s) ==
    LET n == Len(s)
    IN IF \A i \in 1..n : IsSpace(Ch(s, i)) THEN ""
       ELSE SubSeq(s,
                   CHOOSE i \in 1..n : /\ ~IsSpace(Ch(s, i))
                                       /\ \A j \in 1..(i - 1) : IsSpace(Ch(s, j)),
                   CHOOSE i \in 1..n : /\ ~IsSpace(Ch(s, i))
                                       /\ \A j \in (i + 1)..n : IsSpace(Ch(s, j)))

\* Python's `t in s` on strings: t occurs in s as a contiguous substring.
Contains(s, t) ==
    \E i \in 1..(Len(s) - Len(t) + 1) : SubSeq(s, i, i + Len(t) - 1) = t

\* text[:n] for n >= 0.
Prefix(text, n) == IF Len(text) <= n THEN text ELSE SubSeq(text, 1, n)

\* sep.join(parts) on the parts lo..hi of a sequence of strings.
RECURSIVE JoinRange(_, _, _, _)
JoinRange(sep, parts, lo, hi) ==
    IF lo > hi THEN ""
    ELSE IF lo = hi THEN parts[lo]
    ELSE LET m == (lo + hi) \div 2
         IN JoinRange(sep, parts, lo, m) \o sep \o JoinRange(sep, parts, m + 1, hi)

join(sep, parts) == JoinRange(sep, parts, 1, Len(parts))

\* sum(nums[lo..hi]).
RECURSIVE SumRange(_, _, _)
SumRange(nums, lo, hi) ==
    IF lo > hi THEN 0
    ELSE IF lo = hi THEN nums[lo]
    ELSE LET m == (lo + hi) \div 2
         IN SumRange(nums, lo, m) + SumRange(nums, m + 1, hi)

sum(nums) == SumRange(nums, 1, Len(nums))

\* The maximal runs of marked positions of s, left to right (mark[i] says
\* whether character i belongs to the class): what re.findall(r"[...]+", s)
\* and str.split() return.
Runs(s, mark) ==
    LET n == Len(s)
        IsStart(i) == mark[i] /\ (i = 1 \/ ~mark[i - 1])
        IsEnd(i) == mark[i] /\ (i = n \/ ~mark[i + 1])
        starts == SelectSeq(Idx(n), IsStart)
        ends == SelectSeq(Idx(n), IsEnd)
    IN [k \in 1..Len(starts) |-> SubSeq(s, starts[k], ends[k])]

\* str.split() with no argument: the maximal runs of non-whitespace.
split(s) == Runs(s, [i \in 1..Len(s) |-> ~IsSpace(Ch(s, i))])

\* re.split(r"(?<=[.!?])\s+", text): text cut at every maximal whitespace run
\* that directly follows '.', '!' or '?'. A run can only match from its first
\* character (inside a run the preceding character is whitespace), and the
\* lookbehind fails at the start of the text. A text ending in such a run
\* yields a final empty piece.
re_split_sentences(text) ==
    LET n == Len(text)
        IsCutStart(i) == /\ i > 1
                         /\ IsSpace(Ch(text, i))
                         /\ IsSentenceEnd(Ch(text, i - 1))
        cuts == SelectSeq(Idx(n), IsCutStart)
        \* first position after the whitespace run that starts at i
        RunEnd(i) == CHOOSE j \in (i + 1)..(n + 1) :
                        /\ (j = n + 1 \/ ~IsSpace(Ch(text, j)))
                        /\ \A k \in i..(j - 1) : IsSpace(Ch(text, k))
        From(k) == IF k = 1 THEN 1 ELSE RunEnd(cuts[k - 1])
        To(k) == IF k = Len(cuts) + 1 THEN n ELSE cuts[k] - 1
    IN [k \in 1..(Len(cuts) + 1) |-> SubSeq(text, From(k), To(k))]

(***************************************************************************)
(* Program constants.                                                      *)
(***************************************************************************)

\* AskRequest.question: Field(..., min_length=3)
MinQuestionLen == 3

\* get_documents("resource", {}, 100)
DocLimit == 100

\* extract_snippets(..., max_chars: int = 600)
MaxChars == 600

NoResourcesMsg == "I don't have any resources yet. Please add a website or docs first."

NotFoundMsg == "I couldn't find information about that in the provided resources."

AnswerLead == "Here's what I found based on your resources: \n\n"

AnswerTail == "\n\nIf you'd like, you can add more sources for better answers."

\* An Optional value: None is the empty tuple and a present value v the
\* one-element tuple <<v>>, so that no string is mistaken for None.
None == <<>>

Some(v) == <<v>>

(***************************************************************************)
(* The document store (database.py is not part of the sources; modelled    *)
(* from the contract the specification gives for it).                      *)
(***************************************************************************)

\* create_document(collection, record): the record is appended under a fresh
\* identifier.
create_document(st, id, doc) ==
    Append(st, [_id |-> id, title |-> doc.title, url |-> doc.url,
                content |-> doc.content, tags |-> doc.tags])

\* get_documents(collection, {}, limit): the first `limit` records in the
\* store's natural order.
get_documents(st, limit) ==
    IF Len(st) <= limit THEN st ELSE SubSeq(st, 1, limit)

(***************************************************************************)
(* Retrieval: tokenize, scoring, ranking, top_k selection.                 *)
(***************************************************************************)

\* A faulty variant of tokenize: the tokens keep their case.
tokenize_cased(t) == Runs(t, [i \in 1..Len(t) |-> IsAlnum(Ch(t, i))])

\* tokenize(t): [w.lower() for w in re.findall(r"[a-zA-Z0-9]+", t)]
tokenize(t) ==
    LET words == Runs(t, [i \in 1..Len(t) |-> IsAlnum(Ch(t, i))])
    IN [k \in 1..Len(words) |-> lower(words[k])]

\* Counter(tokens)[t]: the number of occurrences of t (0 when absent).
CounterGet(tokens, t) == Cardinality({i \in 1..Len(tokens) : tokens[i] = t})

\* A faulty variant of doc_score: each distinct question token counted once
\* (iterating q_counts instead of q_tokens).
doc_score_distinct(tokens, q_tokens) ==
    LET IsFirst(k) == \A j \in 1..(k - 1) : q_tokens[j] # q_tokens[k]
    IN sum([k \in 1..Len(q_tokens) |->
              IF IsFirst(k) THEN CounterGet(tokens, q_tokens[k]) ELSE 0])

\* score = sum(counts[t] for t in q_tokens), counts = Counter(tokens)
doc_score(tokens, q_tokens) ==
    sum([k \in 1..Len(q_tokens) |-> CounterGet(tokens, q_tokens[k])])

\* A faulty variant of Keeps: documents scoring zero are ranked too.
Keeps_zero(score) == score >= 0

\* `if score > 0: scored.append((score, d))`
Keeps(score) == score > 0

\* The loop over docs: (score, d) for every document whose content has
\* tokens and whose score is kept, in retrieval order.
score_docs(docs, q_tokens) ==
    LET entry(k) ==
            LET tokens == tokenize(docs[k].content)
            IN [score |-> IF tokens = <<>> THEN 0 ELSE doc_score(tokens, q_tokens),
                skipped |-> tokens = <<>>,
                doc |-> docs[k]]
        all == [k \in 1..Len(docs) |-> entry(k)]
        kept == SelectSeq(all, LAMBDA e : ~e.skipped /\ Keeps(e.score))
    IN [k \in 1..Len(kept) |-> [score |-> kept[k].score, doc |-> kept[k].doc]]

\* A faulty variant of insert_desc: an entry goes before the entries of equal score.
insert_desc_before_equal(sorted, x) ==
    LET before == SelectSeq(sorted, LAMBDA e : e.score > x.score)
        after == SelectSeq(sorted, LAMBDA e : e.score <= x.score)
    IN before \o <<x>> \o after

\* One step of the stable descending sort: x, which came later in the input,
\* goes after every entry whose score is at least its own.
insert_desc(sorted, x) ==
    LET before == SelectSeq(sorted, LAMBDA e : e.score >= x.score)
        after == SelectSeq(sorted, LAMBDA e : e.score < x.score)
    IN before \o <<x>> \o after

\* scored.sort(key=lambda x: x[0], reverse=True): list.sort is stable, and
\* reverse=True keeps the input order of entries with equal keys.
RECURSIVE sort_desc(_)
sort_desc(scored) ==
    IF scored = <<>> THEN <<>>
    ELSE insert_desc(sort_desc(SubSeq(scored, 1, Len(scored) - 1)),
                     scored[Len(scored)])

\* seq[:k] with Python's slice semantics: a negative k counts from the end.
slice_to(seq, k) ==
    LET n == Len(seq)
        stop == IF k >= 0 THEN (IF k < n THEN k ELSE n)
                ELSE (IF n + k > 0 THEN n + k ELSE 0)
    IN SubSeq(seq, 1, stop)

(***************************************************************************)
(* Snippet extraction.                                                     *)
(***************************************************************************)

\* A faulty variant of any_term_in: every term has to occur.
all_terms_in(s_low, q_terms) ==
    \A k \in 1..Len(q_terms) : Contains(s_low, q_terms[k])

\* any(t in s_low for t in q_terms)
any_term_in(s_low, q_terms) ==
    \E k \in 1..Len(q_terms) : Contains(s_low, q_terms[k])

\* The `for s in sentences` loop from sentence i on: a sentence whose
\* lowercased text contains a term is appended stripped, and the loop breaks
\* once the selected sentences' lengths sum to more than max_chars.
RECURSIVE scan_sentences(_, _, _, _, _)
scan_sentences(sentences, i, selected, q_terms, max_chars) ==
    IF i > Len(sentences) THEN selected
    ELSE LET s == sentences[i]
             s_low == lower(s)
             sel == IF any_term_in(s_low, q_terms)
                    THEN Append(selected, strip(s))
                    ELSE selected
         IN IF sum([k \in 1..Len(sel) |-> Len(sel[k])]) > max_chars
            THEN sel
            ELSE scan_sentences(sentences, i + 1, sel, q_terms, max_chars)

\* The list `selected` at the end of extract_snippets' loop.
select_sentences(text, q_terms, max_chars) ==
    scan_sentences(re_split_sentences(text), 1, <<>>, q_terms, max_chars)

\* A faulty variant of extract_snippets: the joined sentences are returned uncut.
extract_snippets_uncut(text, q_terms, max_chars) ==
    LET selected == select_sentences(text, q_terms, max_chars)
    IN IF selected # <<>> THEN join(" ", selected)
       ELSE Prefix(text, max_chars)

\* extract_snippets(text, q_terms, max_chars)
extract_snippets(text, q_terms, max_chars) ==
    LET selected == select_sentences(text, q_terms, max_chars)
    IN IF selected # <<>> THEN Prefix(join(" ", selected), max_chars)
       ELSE Prefix(text, max_chars)

(***************************************************************************)
(* POST /api/ask.                                                          *)
(***************************************************************************)

\* AskRequest: question is a string of at least 3 characters (checked on the
\* raw string), top_k any integer. A request that fails is answered 422
\* before ask_question runs.
AskRequestValid(payload) == Len(payload.question) >= MinQuestionLen

\* normalize_source(d): the identifier as text, title and url as stored.
normalize_source(d) ==
    [id |-> ToString(d._id), title |-> d.title, url |-> d.url]

\* `raise HTTPException(status_code=..., detail=...)` in /api/ask. `steps`
\* lists, in order, the calls the request had made.
AskError(status_code, detail, steps) ==
    [op |-> "ask", status |-> status_code, detail |-> detail, steps |-> steps]

\* `return {"answer": ..., "sources": ...}`: a 200. `steps` lists, in order,
\* the calls the request made; `scored` is the sorted (score, id) list and
\* `snippets` the extracted snippets, kept for inspection.
AskResponse(answer, sources, steps, scored, snippets) ==
    [op |-> "ask", status |-> 200, answer |-> answer, sources |-> sources,
     steps |-> steps, scored |-> scored, snippets |-> snippets]

\* A faulty variant of NoDocs: the empty candidate set is not recognised.
NoDocs_ignored(docs) == FALSE

\* `if not docs`
NoDocs(docs) == docs = <<>>

\* A faulty variant of EmptyQuestion: only the zero-length question is rejected.
EmptyQuestion_unstripped(raw) == raw = ""

\* `question = payload.question.strip()`, `if not question`
EmptyQuestion(raw) == strip(raw) = ""

\* ask_question(payload) on store st. dbErr is None when get_documents
\* succeeds and Some(e) when it raises an exception whose text is e.
ask_question(payload, dbErr, st) ==
    IF EmptyQuestion(payload.question)
    THEN AskError(400, "Empty question", <<>>)
    ELSE IF dbErr # None
    THEN AskError(500, "Database error: " \o dbErr[1], <<"get_documents">>)
    ELSE
    LET question == strip(payload.question)
        docs == get_documents(st, DocLimit)
    IN IF NoDocs(docs)
       THEN AskResponse(NoResourcesMsg, <<>>, <<"get_documents">>, <<>>, <<>>)
       ELSE
       LET q_tokens == tokenize(question)
           scored == score_docs(docs, q_tokens)
       IN IF scored = <<>>
          THEN AskResponse(NotFoundMsg, <<>>,
                           <<"get_documents", "score">>, <<>>, <<>>)
          ELSE
          LET sorted == sort_desc(scored)
              ranked == slice_to(sorted, payload.top_k)
              top == [k \in 1..Len(ranked) |-> ranked[k].doc]
              snippets == [k \in 1..Len(top) |->
                             extract_snippets(top[k].content, q_tokens, MaxChars)]
              combined == join(" \n\n", snippets)
              answer == AnswerLead \o combined \o AnswerTail
          IN AskResponse(answer,
                         [k \in 1..Len(top) |-> normalize_source(top[k])],
                         <<"get_documents", "score", "sort">>
                            \o [k \in 1..Len(top) |-> "extract_snippets"],
                         [k \in 1..Len(sorted) |->
                            [score |-> sorted[k].score, id |-> sorted[k].doc._id]],
                         snippets)

\* The 422 the framework answers when the body fails AskRequest.
AskRejected == AskError(422, "String should have at least 3 characters", <<>>)

(***************************************************************************)
(* POST /api/ingest.                                                       *)
(***************************************************************************)

\* What the network did for a request: requests.get raised (kind "timeout" or
\* "connection_error", with the exception's text), or a response arrived
\* (kind "response") with its status, the text raise_for_status would raise
\* with, and the page its body parses to.
FetchOutcome(fetch) == [kind |-> fetch.kind, status |-> fetch.status]

\* requests.get(...) raises on a timeout or a network error;
\* resp.raise_for_status() raises for the statuses 400..599 and for no other.
FetchRaises(fetch) ==
    \/ fetch.kind # "response"
    \/ (fetch.status >= 400 /\ fetch.status < 600)

\* " ".join(text.split())
normalize_whitespace(text) == join(" ", split(text))

\* payload.title or (soup.title.string.strip() if soup.title and
\* soup.title.string else str(payload.url)). page.title is soup.title.string
\* (None when the page has no <title> or the <title> has no string).
derive_title(payload, page) ==
    IF payload.title # None /\ payload.title[1] # "" THEN payload.title[1]
    ELSE IF page.title # None /\ page.title[1] # "" THEN strip(page.title[1])
    ELSE payload.url

\* `raise HTTPException(status_code=..., detail=...)` in /api/ingest. `steps`
\* lists the calls the request had made and `fetch` what the network did.
IngestError(status_code, detail, steps, fetch) ==
    [op |-> "ingest", status |-> status_code, detail |-> detail,
     steps |-> steps, fetch |-> FetchOutcome(fetch)]

\* `return {"status": "ok", "id": doc_id, "title": title, "length": len(text)}`
IngestResponse(id, title, length, steps, fetch) ==
    [op |-> "ingest", status |-> 200,
     body |-> [status |-> "ok", id |-> id, title |-> title, length |-> length],
     steps |-> steps, fetch |-> fetch]

\* ingest_resource(payload) up to the record ready for storage: the fetch,
\* then text and title from the parsed page (fetch.page: its <title> string
\* and its text without script, style and noscript).
ingest_resource_fetch(payload, fetch) ==
    IF FetchRaises(fetch)
    THEN [raised |-> TRUE,
          resp |-> IngestError(400, "Failed to fetch URL: " \o fetch.error,
                               <<"fetch">>, fetch)]
    ELSE
    LET text == normalize_whitespace(fetch.page.text)
        title == derive_title(payload, fetch.page)
        doc == [title |-> title, url |-> payload.url, content |-> text,
                tags |-> IF payload.tags = None THEN <<>> ELSE payload.tags[1]]
    IN [raised |-> FALSE,
        pending |-> [payload |-> payload, fetch |-> FetchOutcome(fetch),
                     doc |-> doc]]

\* ingest_resource(payload) from create_document on: the response and the
\* store it leaves. dbErr is None when create_document succeeds and Some(e)
\* when it raises an exception whose text is e; id is the identifier the
\* store assigns.
ingest_resource_store(pending, dbErr, st, id) ==
    IF dbErr # None
    THEN [resp |-> IngestError(500, "Database error: " \o dbErr[1],
                               <<"fetch", "create_document">>, pending.fetch),
          store |-> st]
    ELSE [resp |-> IngestResponse(ToString(id), pending.doc.title,
                                  Len(pending.doc.content),
                                  <<"fetch", "create_document">>, pending.fetch),
          store |-> create_document(st, id, pending.doc)]

(***************************************************************************)
(* The environment: the pages the web serves and the requests clients      *)
(* send.                                                                   *)
(***************************************************************************)

\* The most documents stored or on their way to the store in the model.
MaxDocs == 2

\* The most sentences of a text handed to extract_snippets directly.
MaxSentences == 3

\* s repeated n times.
RECURSIVE Rep(_, _)
Rep(s, n) ==
    IF n = 0 THEN ""
    ELSE IF n = 1 THEN s
    ELSE Rep(s, n \div 2) \o Rep(s, n - (n \div 2))

LongCatSentence == "The cat is " \o Rep("very ", 60) \o "long."

LongRainSentence == "It rained " \o Rep("very ", 60) \o "hard?"

\* url -> the page the body of its response parses to: its <title> string
\* (None when absent) and its text.
Pages ==
    [u \in {"https://rust.example/", "https://cats.example/",
            "https://pets.example/", "https://empty.example/",
            "https://long.example/"} |->
       CASE u = "https://rust.example/" ->
              [title |-> Some("  The Rust Book \n"),
               text |-> " Rust is a systems programming language.\n\n It guarantees memory safety. "]
         [] u = "https://cats.example/" ->
              [title |-> None,
               text |-> "Cat sat. The CAT ran!\tA category of cat."]
         [] u = "https://pets.example/" ->
              [title |-> Some("Pets"),
               text |-> "A dog barked. Cat sat."]
         [] u = "https://empty.example/" ->
              [title |-> Some(""),
               text |-> " \n ... "]
         [] OTHER ->
              [title |-> Some("Long"),
               text |-> LongCatSentence \o " Another cat ran "
                        \o Rep("very ", 60) \o "far!\nThe last cat."]]

URLs == DOMAIN Pages

IngestPayloads ==
    {[url |-> u, title |-> None, tags |-> None] : u \in URLs}
      \cup {[url |-> "https://pets.example/", title |-> Some("My pets"),
             tags |-> Some(<<"pets">>)]}

\* The body of a 4xx or 5xx response is an error page, not the resource.
ErrorPage == [title |-> Some("Error"), text |-> "Not Found. No cat here."]

\* The statuses a server answers a GET of url with: the page itself (200), an
\* error (404, 503) and, for the URL that has several representations, 300
\* Multiple Choices with the page as its body (a 3xx reply without a Location
\* header is handed to the caller as it is).
StatusesOf(url) ==
    {200, 404, 503} \cup (IF url = "https://pets.example/" THEN {300} ELSE {})

\* The reason phrase the server sends with a status.
ReasonOf(status) ==
    CASE status = 200 -> "OK"
      [] status = 300 -> "Multiple Choices"
      [] status = 404 -> "Not Found"
      [] status = 503 -> "Service Unavailable"
      [] OTHER -> ""

\* The text of the HTTPError raise_for_status raises for a status:
\* "<status> Client Error: <reason> for url: <url>" for 400..499 and
\* "<status> Server Error: <reason> for url: <url>" for 500..599 (the url is
\* the requested one: no reply of the model redirects).
StatusError(url, status, reason) ==
    ToString(status)
      \o (IF status < 500 THEN " Client Error: " ELSE " Server Error: ")
      \o reason \o " for url: " \o url

FetchOutcomes(url) ==
    {[kind |-> "timeout", status |-> 0, error |-> "Read timed out.",
      page |-> ErrorPage],
     [kind |-> "connection_error", status |-> 0,
      error |-> "Failed to establish a new connection", page |-> ErrorPage]}
      \cup {[kind |-> "response", status |-> s, error |-> StatusError(url, s, ReasonOf(s)),
             page |-> IF s >= 400 THEN ErrorPage ELSE Pages[url]] :
               s \in StatusesOf(url)}

\* What the store call does: it succeeds (None) or raises with a text.
DbOutcomes == {None, Some("connection lost")}

BlankQuestions == {"", "  ", "    ", " \n\t"}

\* A question without tokens and one shorter than AskRequest allows.
OddQuestions == {"???", "ab"}

Questions == {"CAT", "What is Rust?", "Dog cat Cat"}

TopKs == {-1, 0, 1, 3}

AskPayloads ==
    {[question |-> q, top_k |-> k] : q \in Questions, k \in TopKs}
      \cup {[question |-> q, top_k |-> 3] : q \in BlankQuestions \cup OddQuestions}

NoReq == [op |-> "none"]

NoResp == [op |-> "none"]

(***************************************************************************)
(* The server. Requests are handled side by side; a step of the model is   *)
(* one request's access to the store or the end of its fetch. `inflight`   *)
(* holds the ingest requests between their fetch and their create_document,*)
(* `req` and `resp` the request that ended last and its response, until    *)
(* the response is sent.                                                   *)
(***************************************************************************)

Init ==
    /\ store = <<>>
    /\ nextId = 1
    /\ inflight = <<>>
    /\ req = NoReq
    /\ resp = NoResp

\* POST /api/ask: body validation, then ask_question. Its one access to the
\* store is get_documents; everything around it works on the request's own
\* data.
AskHandler(payload) ==
    /\ resp = NoResp
    /\ \E dbErr \in DbOutcomes :
         resp' = IF AskRequestValid(payload)
                 THEN ask_question(payload, dbErr, store)
                 ELSE AskRejected
    /\ req' = [op |-> "ask", payload |-> payload]
    /\ UNCHANGED <<store, nextId, inflight>>

\* POST /api/ingest, first part: the fetch ends. The request either ends
\* with 400 or goes on towards create_document with its record (as long as
\* fewer than MaxDocs documents are stored or on their way).
IngestFetch(payload) ==
    /\ resp = NoResp
    /\ \E fetch \in FetchOutcomes(payload.url) :
         LET r == ingest_resource_fetch(payload, fetch)
         IN IF r.raised
            THEN /\ req' = [op |-> "ingest", payload |-> payload]
                 /\ resp' = r.resp
                 /\ UNCHANGED inflight
            ELSE /\ Len(store) + Len(inflight) < MaxDocs
                 /\ inflight' = Append(inflight, r.pending)
                 /\ UNCHANGED <<req, resp>>
    /\ UNCHANGED <<store, nextId>>

\* POST /api/ingest, second part: create_document and the return, for any
\* of the requests whose fetch has ended.
IngestStore(i) ==
    /\ resp = NoResp
    /\ i \in 1..Len(inflight)
    /\ \E dbErr \in DbOutcomes :
         LET r == ingest_resource_store(inflight[i], dbErr, store, nextId)
         IN /\ resp' = r.resp
            /\ store' = r.store
            /\ nextId' = IF dbErr = None THEN nextId + 1 ELSE nextId
    /\ req' = [op |-> "ingest", payload |-> inflight[i].payload]
    /\ inflight' = SubSeq(inflight, 1, i - 1)
                     \o SubSeq(inflight, i + 1, Len(inflight))

\* The response is sent.
Reply ==
    /\ resp # NoResp
    /\ resp.op \in {"ask", "ingest"}
    /\ req' = NoReq
    /\ resp' = NoResp
    /\ UNCHANGED <<store, nextId, inflight>>

Next ==
    \/ \E payload \in AskPayloads : AskHandler(payload)
    \/ \E payload \in IngestPayloads : IngestFetch(payload)
    \/ \E i \in 1..MaxDocs : IngestStore(i)
    \/ Reply

Spec == Init /\ [][Next]_vars

(***************************************************************************)
(* extract_snippets on its own: every text of up to MaxSentences sentences *)
(* with or without surrounding whitespace, against every term list.        *)
(***************************************************************************)

SentencePool == {"Cat sat.", "A dog barked!", "Category", LongCatSentence,
                 LongRainSentence}

Paddings == {<<"", "">>, <<" ", "">>, <<"", "\n">>}

SnippetTexts ==
    {pad[1] \o join(" ", parts) \o pad[2] :
        pad \in Paddings,
        parts \in UNION {[1..n -> SentencePool] : n \in 0..MaxSentences}}

TermLists == {<<>>, <<"cat">>, <<"dog", "cat">>}

InitSnippet ==
    /\ store = <<>>
    /\ nextId = 1
    /\ inflight = <<>>
    /\ req \in {[op |-> "extract", text |-> t, q_terms |-> q] :
                  t \in SnippetTexts, q \in TermLists}
    /\ resp = NoResp

ExtractCall ==
    /\ req.op = "extract"
    /\ resp = NoResp
    /\ resp' = [op |-> "extract",
                snippet |-> extract_snippets(req.text, req.q_terms, MaxChars),
                selected |-> select_sentences(req.text, req.q_terms, MaxChars)]
    /\ UNCHANGED <<store, nextId, inflight, req>>

NextSnippet == ExtractCall

SpecSnippet == InitSnippet /\ [][NextSnippet]_vars

(***************************************************************************)
(* Properties.                                                             *)
(***************************************************************************)

\* The request in hand is a POST /api/ask that has been answered.
AskAnswered == req.op = "ask" /\ resp.op = "ask"

\* The answered request got past validation and its store query succeeded.
AskQueried == AskAnswered /\ resp.status \notin {400, 422, 500}

\* q consists of whitespace only (or is empty).
IsBlank(q) == \A i \in 1..Len(q) : IsSpace(Ch(q, i))

\* The question's token sequence, as the handler derives it.
QuestionTokens == tokenize(strip(req.payload.question))

\* The number of pairs (position in the question's tokens, position in the
\* document's tokens) holding the same token.
PairCount(q_tokens, tokens) ==
    Cardinality({p \in (1..Len(q_tokens)) \X (1..Len(tokens)) :
                    q_tokens[p[1]] = tokens[p[2]]})

\* The score of a stored document for the question in hand, counted pair by
\* pair; 0 for a document without tokens.
RefScore(d) == PairCount(QuestionTokens, tokenize(d.content))

\* RefScore of every stored document, by position.
RefScores ==
    LET q == QuestionTokens
    IN [k \in 1..Len(store) |-> PairCount(q, tokenize(store[k].content))]

\* The position in the store of the document a source entry cites.
PosOf(source) == CHOOSE k \in 1..Len(store) : ToString(store[k]._id) = source.id

\* The score the handler ranked document d with (0: not ranked).
RankedScore(d) ==
    IF \E k \in 1..Len(resp.scored) : resp.scored[k].id = d._id
    THEN resp.scored[CHOOSE k \in 1..Len(resp.scored) : resp.scored[k].id = d._id].score
    ELSE 0

Min2(a, b) == IF a <= b THEN a ELSE b

\* C1: a POST /api/ask whose question is empty or whitespace only ends in a
\* client error (422 from body validation or 400 from the handler), and the
\* request never calls get_documents.
C1_BlankQuestionRejected ==
    (AskAnswered /\ IsBlank(req.payload.question)) =>
        /\ resp.status \in {400, 422}
        /\ \A k \in 1..Len(resp.steps) : resp.steps[k] # "get_documents"

\* A whitespace-only question long enough to pass body validation was
\* rejected by the handler itself.
C1_Witness ==
    /\ AskAnswered
    /\ IsBlank(req.payload.question)
    /\ Len(req.payload.question) >= MinQuestionLen
    /\ resp.status = 400
    /\ store # <<>>

\* C2: the number of sources returned is never more than
\* min(top_k, number of documents with score > 0), for every integer top_k
\* (a negative top_k read as allowing no source at all).
C2_TopKBound ==
    (AskQueried /\ resp.status = 200) =>
        LET scores == RefScores
            positive == Cardinality({k \in 1..Len(store) : scores[k] > 0})
            bound == Min2(req.payload.top_k, positive)
        IN Len(resp.sources) <= (IF bound < 0 THEN 0 ELSE bound)

\* C3: the sources are in descending score order, and two sources of equal
\* score are in the order get_documents returned their documents.
C3_StableDescending ==
    (AskQueried /\ resp.status = 200 /\ resp.sources # <<>>) =>
        LET scores == RefScores
        IN \A i \in 1..Len(resp.sources) : \A j \in (i + 1)..Len(resp.sources) :
              LET pi == PosOf(resp.sources[i])
                  pj == PosOf(resp.sources[j])
              IN /\ scores[pi] >= scores[pj]
                 /\ scores[pi] = scores[pj] => pi < pj

\* Two sources of equal score were returned.
C3_Witness ==
    /\ AskQueried
    /\ Len(resp.sources) >= 2
    /\ \E i \in 1..Len(resp.sources) : \E j \in (i + 1)..Len(resp.sources) :
          /\ RefScore(store[PosOf(resp.sources[i])])
                = RefScore(store[PosOf(resp.sources[j])])
          /\ store[PosOf(resp.sources[i])].title
                # store[PosOf(resp.sources[j])].title

\* C4: the score a document with tokens is ranked with is the sum, over the
\* positions of the question's token sequence, of that token's occurrence
\* count in the document; and a document holding at least as many occurrences
\* of every question token as another is ranked with at least its score.
C4_ScoreIsTermFrequencySum ==
    (AskQueried /\ store # <<>>) =>
        LET q == QuestionTokens
            \* document k's occurrence count of each question position's token
            Freq(k) == LET tokens == tokenize(store[k].content)
                       IN [has |-> tokens # <<>>,
                           tf |-> <<>> \o [i \in 1..Len(q) |-> PairCount(<<q[i]>>, tokens)]]
        IN \A a \in 1..Len(store) :
              LET fa == Freq(a)
                  ra == RankedScore(store[a])
              IN fa.has =>
                   /\ ra = sum(fa.tf)
                   /\ \A b \in 1..Len(store) :
                         LET fb == Freq(b)
                         IN (fb.has /\ \A i \in 1..Len(q) : fa.tf[i] <= fb.tf[i])
                            => ra <= RankedScore(store[b])

\* A question that repeats a token was scored against a document holding it.
C4_Witness ==
    /\ AskQueried
    /\ \E i \in 1..Len(QuestionTokens) : \E j \in (i + 1)..Len(QuestionTokens) :
          /\ QuestionTokens[i] = QuestionTokens[j]
          /\ \E k \in 1..Len(store) :
                /\ PairCount(<<QuestionTokens[i]>>, tokenize(store[k].content)) >= 2
                /\ RankedScore(store[k]) >= 4

\* C5: extract_snippets with max_chars = 600 never returns more than 600
\* characters, whether sentences were selected or the raw content is used.
C5_SnippetAtMost600 ==
    resp.op = "extract" => Len(resp.snippet) <= MaxChars

\* Selected sentences longer than 600 characters together were cut to 600.
C5_Witness ==
    /\ resp.op = "extract"
    /\ resp.selected # <<>>
    /\ Len(join(" ", resp.selected)) > MaxChars
    /\ Len(resp.snippet) = MaxChars

\* C6: with a non-empty candidate set in which no document scores above zero,
\* the response is a 200 with exactly the fixed "couldn't find" answer and no
\* sources.
C6_NoMatchMessage ==
    (/\ AskQueried
     /\ store # <<>>
     /\ LET scores == RefScores IN \A k \in 1..Len(store) : scores[k] = 0)
    => /\ resp.status = 200
       /\ resp.answer = NotFoundMsg
       /\ resp.sources = <<>>

\* A question with tokens found none of them in a stored document that has
\* tokens.
C6_Witness ==
    /\ AskQueried
    /\ QuestionTokens # <<>>
    /\ \E k \in 1..Len(store) : tokenize(store[k].content) # <<>>
    /\ \A k \in 1..Len(store) : RefScore(store[k]) = 0
    /\ resp.answer = NotFoundMsg

\* C7: when the store query returns no documents the response is a 200 with
\* exactly the fixed "no resources yet" answer and no sources, and the request
\* made no call after get_documents (no scoring, no snippet extraction).
C7_NoResourcesMessage ==
    (AskQueried /\ store = <<>>) =>
        /\ resp.status = 200
        /\ resp.answer = NoResourcesMsg
        /\ resp.sources = <<>>
        /\ resp.steps = <<"get_documents">>
        /\ resp.scored = <<>>
        /\ resp.snippets = <<>>

\* A question with tokens was asked of the empty store.
C7_Witness ==
    /\ AskQueried
    /\ store = <<>>
    /\ QuestionTokens # <<>>
    /\ resp.answer = NoResourcesMsg

\* The fetch failed in the claim's sense: a timeout, a network error, or a
\* response whose status is not 2xx.
FetchFailed(fetch) ==
    \/ fetch.kind # "response"
    \/ fetch.status < 200
    \/ fetch.status > 299

\* C8: an ingest whose fetch fails (timeout, network error or non-2xx
\* response) ends with 400 without calling create_document and leaves the
\* stored documents as they were; a document is created only by an ingest
\* whose fetch succeeded.
C8_FailedFetchCreatesNothing ==
    [][/\ (resp.op = "none" /\ resp'.op = "ingest" /\ FetchFailed(resp'.fetch)) =>
            /\ resp'.status = 400
            /\ resp'.steps = <<"fetch">>
            /\ store' = store
       /\ store' # store =>
            /\ resp'.op = "ingest"
            /\ ~FetchFailed(resp'.fetch)
            /\ resp'.status = 200
            /\ Len(store') = Len(store) + 1
            /\ SubSeq(store', 1, Len(store)) = store]_vars

\* The sentences the claim has extract_snippets select: scanning in order,
\* those whose lowercased text contains a term, up to and including the
\* sentence at which the selected lengths first sum to more than 600.
\* A selected sentence is kept as split, or (stripped) without its leading and
\* trailing whitespace.
RefSelected(text, q_terms, stripped) ==
    LET sentences == <<>> \o re_split_sentences(text)
        n == Len(sentences)
        Shape(s) == IF stripped THEN strip(s) ELSE s
        hit == <<>> \o [i \in 1..n |->
                  \E k \in 1..Len(q_terms) : Contains(lower(sentences[i]), q_terms[k])]
        size == <<>> \o [i \in 1..n |->
                  IF hit[i] THEN Len(Shape(sentences[i])) ELSE 0]
        Total(i) == sum(SubSeq(size, 1, i))
        Scanned(i) == \A j \in 1..(i - 1) : Total(j) <= MaxChars
        chosen == SelectSeq(Idx(n), LAMBDA i : hit[i] /\ Scanned(i))
    IN [k \in 1..Len(chosen) |-> Shape(sentences[chosen[k]])]

RefSnippet(text, selected) ==
    IF selected # <<>> THEN Prefix(join(" ", selected), MaxChars)
    ELSE Prefix(text, MaxChars)

\* C9 as stated: the result is the selected sentences, as split from the
\* content, joined by a single space and cut to 600 characters, or the first
\* 600 characters of the content when none was selected.
C9_SnippetOfSentencesAsSplit ==
    resp.op = "extract" =>
        resp.snippet = RefSnippet(req.text, RefSelected(req.text, req.q_terms, FALSE))

\* C9 amended: each selected sentence is taken without its leading and
\* trailing whitespace (which is also the length counted towards 600); the
\* scan stops once the selected lengths exceed 600, and the result is the
\* selected sentences joined by a single space and cut to 600 characters, or
\* the first 600 characters of the raw content when none was selected.
C9_SnippetOfStrippedSentences ==
    resp.op = "extract" =>
        LET selected == RefSelected(req.text, req.q_terms, TRUE)
        IN /\ resp.selected = selected
           /\ resp.snippet = RefSnippet(req.text, selected)

\* A matching sentence was left unscanned after the selected lengths had
\* passed 600, and a selected sentence lost surrounding whitespace.
C9_Witness ==
    /\ resp.op = "extract"
    /\ resp.selected # <<>>
    /\ resp.selected[1] # re_split_sentences(req.text)[1]
    /\ resp.selected[1] = strip(re_split_sentences(req.text)[1])
    /\ Len(resp.selected) <
          Len(SelectSeq(re_split_sentences(req.text),
                        LAMBDA s : any_term_in(lower(s), req.q_terms)))

\* C10: every document whose snippet /api/ask extracts has score > 0 and a
\* sentence containing a question token, so extract_snippets never falls back
\* to the raw content there and every snippet is non-empty.
C10_NoFallbackForRankedDocs ==
    (AskQueried /\ resp.status = 200 /\ resp.sources # <<>>) =>
        LET q == QuestionTokens
        IN
        /\ Len(resp.snippets) = Len(resp.sources)
        /\ \A k \in 1..Len(resp.sources) :
              LET d == store[PosOf(resp.sources[k])]
                  sentences == re_split_sentences(d.content)
              IN /\ PairCount(q, tokenize(d.content)) > 0
                 /\ \E i \in 1..Len(sentences) : \E t \in 1..Len(q) :
                       Contains(lower(sentences[i]), q[t])
                 /\ select_sentences(d.content, q, MaxChars) # <<>>
                 /\ resp.snippets[k] # ""

\* A snippet was extracted from a ranked document of which one sentence
\* holds no question token.
C10_Witness ==
    /\ AskQueried
    /\ resp.snippets # <<>>
    /\ \E k \in 1..Len(resp.sources) :
          LET d == store[PosOf(resp.sources[k])]
              sentences == re_split_sentences(d.content)
          IN /\ \E i \in 1..Len(sentences) :
                   ~any_term_in(lower(sentences[i]), QuestionTokens)
             /\ resp.snippets[k] # Prefix(d.content, MaxChars)

====
